---- MODULE Spec2Model ----
(***************************************************************************)
(* Model of neurokit2/rsp/rsp_intervalrelated.py:                          *)
(*   rsp_intervalrelated(data, sampling_rate) and                          *)
(*   _rsp_intervalrelated_formatinput(interval, output).                   *)
(*                                                                         *)
(* One call of rsp_intervalrelated is executed statement by statement; a   *)
(* new call may start once the previous one has returned or raised and its *)
(* frame is gone.  Column names are distinct strings and the test          *)
(* `'RSP_Rate' in col` is modelled as a character-level substring search.  *)
(* Column means are exact rationals (reduced fractions).  The parameter    *)
(* sampling_rate is only forwarded to rsp_rrv, whose answer is chosen      *)
(* nondeterministically, so it is not part of the state.                   *)
(***************************************************************************)
EXTENDS Integers, Sequences, FiniteSets, TLC

VARIABLES
    pc,             \* position of the running call in rsp_intervalrelated
    data,           \* the argument `data` of the running / last call
    intervals,      \* the local accumulator `intervals` (an ordered dict)
    rate_cols,      \* local list rate_cols (line 58)
    amp_cols,       \* local list amp_cols (line 82)
    rrv,            \* what rsp_rrv returned to this call (NoRrv before it is invoked)
    rrvCalls,       \* how many times this call invoked rsp_rrv
    k,              \* how many of the assignments of lines 62-76 have run
    i,              \* how many keys of a dict input the loop of line 95 has consumed
    rsp_intervals,  \* the local rsp_intervals (Unbound until assigned)
    outcome,        \* how the call ended: pending, returned a table, or raised
    default_output, \* the dict object of the default argument `output={}` (line 109)
    probe,          \* a call (input and collaborator answer) picked for comparison
    first,          \* how the first completed call on `probe` ended
    intervened      \* whether a different call has ended since `first` was set

vars == <<pc, data, intervals, rate_cols, amp_cols, rrv, rrvCalls, k, i,
          rsp_intervals, outcome, default_output, probe, first, intervened>>

-----------------------------------------------------------------------------
(* Bounds of the model *)

\* largest number of named recordings in a dict input
MaxKeys == 2

\* largest number of named recordings in a dict input while a probe is compared
MaxTrackedKeys == 1

-----------------------------------------------------------------------------
(* Generic helpers *)

Range(s) == { s[n] : n \in DOMAIN s }

RECURSIVE SumSeq(_)
SumSeq(s) == IF s = <<>> THEN 0 ELSE Head(s) + SumSeq(Tail(s))

RECURSIVE Gcd(_, _)
Gcd(a, b) == IF b = 0 THEN a ELSE Gcd(b, a % b)

\* a rational number as a reduced fraction
Frac(n, d) == [num |-> n \div Gcd(n, d), den |-> d \div Gcd(n, d)]

Num(n) == Frac(n, 1)

\* a mean computed with integer division
MeanTruncated(values) == Num(SumSeq(values) \div Len(values))

\* numpy mean of a non-empty 1-D array of non-negative integers: sum / size
Mean(values) == Frac(SumSeq(values), Len(values))

\* a test for equality where the code tests for a substring
ContainsExact(sub, s) == s = sub

\* Python `sub in s` for two strings
Contains(sub, s) ==
    \E p \in 1..(Len(s) - Len(sub) + 1) : SubSeq(s, p, p + Len(sub) - 1) = sub

\* a comprehension that keeps only the column named exactly sub
MatchingExact(columns, sub) == SelectSeq(columns, LAMBDA col : col = sub)

\* Python list comprehension [col for col in columns if sub in col]
Matching(columns, sub) == SelectSeq(columns, LAMBDA col : Contains(sub, col))

-----------------------------------------------------------------------------
(* Ordered dictionaries (Python dict: insertion order, assignment overwrites) *)

EmptyDict == [keys |-> <<>>, val |-> <<>>]

DictSet(d, key, v) ==
    [keys |-> IF key \in Range(d.keys) THEN d.keys ELSE Append(d.keys, key),
     val  |-> [x \in (DOMAIN d.val) \cup {key} |-> IF x = key THEN v ELSE d.val[x]]]

-----------------------------------------------------------------------------
(* Inputs: recordings (pandas DataFrames), dicts of recordings, other values *)

\* column names a recording may carry, in the order they appear in a frame
ColumnOrder == <<"RSP_Rate", "RSP_Rate_Alt", "RSP_Amplitude", "Raw_RSP_Amplitude">>

\* two families of sample values, so that recordings with the same columns differ
Variants == {1, 2}

\* the samples of column c in variant v: v + 1 rows, all columns of one
\* recording have the same number of rows
Samples(c, v) ==
    LET base == CASE c = "RSP_Rate"          -> 10
                  [] c = "RSP_Rate_Alt"      -> 20
                  [] c = "RSP_Amplitude"     -> 5
                  [] c = "Raw_RSP_Amplitude" -> 1
    IN  [n \in 1..(v + 1) |-> base + v * n]

RecordingOf(cols, v) ==
    [kind    |-> "DataFrame",
     columns |-> SelectSeq(ColumnOrder, LAMBDA c : c \in cols),
     values  |-> [c \in cols |-> Samples(c, v)]]

Recordings ==
    { RecordingOf(cols, v) : cols \in SUBSET Range(ColumnOrder), v \in Variants }

KeyNames == <<"A", "B", "C", "D">>

\* the key sequences of dict inputs: at most MaxKeys keys, in insertion order
KeySeqs ==
    { SelectSeq(SubSeq(KeyNames, 1, MaxKeys), LAMBDA key : key \in S) :
        S \in SUBSET { KeyNames[n] : n \in 1..MaxKeys } }

DictOf(ks, f) == [kind |-> "dict", keys |-> ks, items |-> f]

Dicts == UNION { { DictOf(ks, f) : f \in [Range(ks) -> Recordings] } : ks \in KeySeqs }

\* inputs that are neither a DataFrame nor a dict
Others == { [kind |-> "list"], [kind |-> "NoneType"] }

Inputs == Recordings \cup Dicts \cup Others

\* the inputs of the calls made while a probe is compared
TrackedInputs ==
    Recordings \cup Others \cup { d \in Dicts : Len(d.keys) <= MaxTrackedKeys }

NoData == [kind |-> "none"]

-----------------------------------------------------------------------------
(* The collaborator rsp_rrv (imported, line 5): its possible answers *)

\* the keys rsp_intervalrelated reads from the answer, in the order of lines 62-76
RRV_KEYS ==
    <<"RRV_SDBB", "RRV_RMSSD", "RRV_SDSD", "RRV_VLF", "RRV_LF", "RRV_HF",
      "RRV_LFHF", "RRV_LFn", "RRV_HFn", "RRV_SD1", "RRV_SD2", "RRV_SD2SD1",
      "RRV_ApEn", "RRV_SampEn", "RRV_DFA">>

\* the metric the collaborator reports under a key: distinct per key
Metric(key) == Num(CHOOSE n \in DOMAIN RRV_KEYS : RRV_KEYS[n] = key)

RrvAnswer(present) == [raised |-> FALSE, val |-> [key \in present |-> Metric(key)]]

\* the collaborator raises, returns every key, returns every key and one more,
\* or returns all keys but one
RrvResponses ==
    { [raised |-> TRUE, val |-> <<>>] }
    \cup { RrvAnswer(Range(RRV_KEYS)) }
    \cup { [raised |-> FALSE,
            val |-> [key \in Range(RRV_KEYS) \cup {"RRV_Extra"} |->
                        IF key = "RRV_Extra" THEN Num(0) ELSE Metric(key)]] }
    \cup { RrvAnswer(Range(RRV_KEYS) \ {key}) : key \in Range(RRV_KEYS) }

NoRrv == [raised |-> FALSE, val |-> <<>>, invoked |-> FALSE]

-----------------------------------------------------------------------------
(* How a call ends *)

Pending == [kind |-> "pending"]

Returned(table) == [kind |-> "returned", table |-> table]

Raised(exc) == [kind |-> "raised", exc |-> exc]

\* the ValueError of lines 78-81, 86-89, 115-118, 121-124; `about` is the column
\* the message names
ValueErrorFor(column) == [type |-> "ValueError", about |-> column]

\* the KeyError of a failed lookup rrv[key] or interval[key]
KeyErrorFor(key) == [type |-> "KeyError", about |-> key]

\* whatever rsp_rrv raised propagates unchanged through line 61
CollaboratorError == [type |-> "RrvError", about |-> "rsp_rrv"]

\* the helper returned normally
NoException == [type |-> "none", about |-> ""]

\* `return rsp_intervals` (line 102) when neither branch assigned it
UnboundLocalError == [type |-> "UnboundLocalError", about |-> "rsp_intervals"]

Unbound == [index |-> <<>>, columns |-> <<>>, cell |-> <<>>, bound |-> FALSE]

-----------------------------------------------------------------------------
(* pandas tables: row labels, column labels, cells.  The integer label 0 that *)
(* pandas gives an unnamed row or column is written "0".                      *)

Table(index, columns, cell) ==
    [index |-> index, columns |-> columns, cell |-> cell, bound |-> TRUE]

IsDict(v) == "keys" \in DOMAIN v

\* the keys of the inner dicts, in the order they are first seen
RECURSIVE InnerKeys(_, _)
InnerKeys(d, n) ==
    IF n = 0 THEN <<>>
    ELSE LET before == InnerKeys(d, n - 1)
             row    == d.val[d.keys[n]]
             new    == IF IsDict(row)
                       THEN SelectSeq(row.keys, LAMBDA c : c \notin Range(before))
                       ELSE <<>>
         IN  before \o new

\* pd.DataFrame.from_dict(d, orient="index"): one row per key of d; a dict of
\* dicts gives the union of the inner keys as columns, a dict of scalars gives
\* the single column 0
FromDictIndex(d) ==
    IF d.keys = <<>> THEN Table(<<>>, <<>>, <<>>)
    ELSE IF IsDict(d.val[d.keys[1]])
    THEN LET cols == InnerKeys(d, Len(d.keys))
         IN  Table(d.keys, cols,
                   [r \in Range(d.keys) |->
                      [c \in Range(cols) |->
                         IF IsDict(d.val[r]) /\ c \in Range(d.val[r].keys)
                         THEN d.val[r].val[c] ELSE [num |-> 0, den |-> 0]]])
    ELSE Table(d.keys, <<"0">>,
               [r \in Range(d.keys) |-> [c \in {"0"} |-> d.val[r]]])

\* DataFrame.T
Transpose(t) ==
    Table(t.columns, t.index,
          [r \in Range(t.columns) |-> [c \in Range(t.index) |-> t.cell[c][r]]])

\* DataFrame.add_prefix(prefix): every column label gets the prefix
AddPrefix(t, prefix) ==
    Table(t.index,
          [n \in DOMAIN t.columns |-> prefix \o t.columns[n]],
          [r \in Range(t.index) |->
             [c \in { prefix \o x : x \in Range(t.columns) } |->
                t.cell[r][CHOOSE x \in Range(t.columns) : prefix \o x = c]]])

-----------------------------------------------------------------------------
(* The helper with the two columns read the wrong way round *)

FormatInputSwapped(interval, output) ==
    LET colnames == interval.columns
    IN  IF Len(Matching(colnames, "RSP_Rate")) = 0
        THEN [raised |-> TRUE, exc |-> ValueErrorFor("RSP_Rate"), output |-> output]
        ELSE IF Len(Matching(colnames, "RSP_Amplitude")) = 0
        THEN [raised |-> TRUE, exc |-> ValueErrorFor("RSP_Amplitude"), output |-> output]
        ELSE IF "RSP_Rate" \notin Range(colnames)
        THEN [raised |-> TRUE, exc |-> KeyErrorFor("RSP_Rate"), output |-> output]
        ELSE IF "RSP_Amplitude" \notin Range(colnames)
        THEN [raised |-> TRUE, exc |-> KeyErrorFor("RSP_Amplitude"), output |-> output]
        ELSE [raised |-> FALSE, exc |-> NoException,
              output |-> DictSet(DictSet(output, "RSP_Rate_Mean",
                                         Mean(interval.values["RSP_Amplitude"])),
                                 "RSP_Amplitude_Mean",
                                 Mean(interval.values["RSP_Rate"]))]

-----------------------------------------------------------------------------
(* _rsp_intervalrelated_formatinput(interval, output), lines 109-133.         *)
(* The caller always passes `output` (line 98-99), so the default argument    *)
(* `output={}` is never used by rsp_intervalrelated.                          *)

_rsp_intervalrelated_formatinput(interval, output) ==
    LET colnames == interval.columns
    IN  IF Len(Matching(colnames, "RSP_Rate")) = 0
        THEN [raised |-> TRUE, exc |-> ValueErrorFor("RSP_Rate"), output |-> output]
        ELSE IF Len(Matching(colnames, "RSP_Amplitude")) = 0
        THEN [raised |-> TRUE, exc |-> ValueErrorFor("RSP_Amplitude"), output |-> output]
        ELSE IF "RSP_Rate" \notin Range(colnames)
        THEN [raised |-> TRUE, exc |-> KeyErrorFor("RSP_Rate"), output |-> output]
        ELSE IF "RSP_Amplitude" \notin Range(colnames)
        THEN [raised |-> TRUE, exc |-> KeyErrorFor("RSP_Amplitude"), output |-> output]
        ELSE [raised |-> FALSE, exc |-> NoException,
              output |-> DictSet(DictSet(output, "RSP_Rate_Mean",
                                         Mean(interval.values["RSP_Rate"])),
                                 "RSP_Amplitude_Mean",
                                 Mean(interval.values["RSP_Amplitude"]))]

-----------------------------------------------------------------------------
(* Calls picked for comparison: the outcome of the first completed call on    *)
(* `probe` is kept in `first`, later calls on the same input are compared.    *)

ValidRecording(v) == RecordingOf({"RSP_Rate", "RSP_Amplitude"}, v)

NoProbe == [data |-> NoData, rrv |-> NoRrv]

Probes ==
    { [data |-> ValidRecording(1), rrv |-> RrvAnswer(Range(RRV_KEYS))],
      [data |-> ValidRecording(2), rrv |-> RrvAnswer(Range(RRV_KEYS) \ {"RRV_LF"})],
      [data |-> DictOf(<<"A">>, [key \in {"A"} |-> ValidRecording(1)]), rrv |-> NoRrv],
      [data |-> DictOf(<<"B">>, [key \in {"B"} |-> ValidRecording(2)]), rrv |-> NoRrv],
      [data |-> DictOf(<<>>, <<>>), rrv |-> NoRrv],
      [data |-> [kind |-> "list"], rrv |-> NoRrv] }

NoFirst == [kind |-> "none"]

-----------------------------------------------------------------------------
(* The state after import: no call has been made *)

Init ==
    /\ pc = "idle"
    /\ data = NoData
    /\ intervals = EmptyDict
    /\ rate_cols = <<>>
    /\ amp_cols = <<>>
    /\ rrv = NoRrv
    /\ rrvCalls = 0
    /\ k = 0
    /\ i = 0
    /\ rsp_intervals = Unbound
    /\ outcome = Pending
    /\ default_output = EmptyDict
    /\ probe = NoProbe
    /\ first = NoFirst
    /\ intervened = FALSE

\* the same state, with a call picked for comparison
InitRepeat ==
    /\ pc = "idle"
    /\ data = NoData
    /\ intervals = EmptyDict
    /\ rate_cols = <<>>
    /\ amp_cols = <<>>
    /\ rrv = NoRrv
    /\ rrvCalls = 0
    /\ k = 0
    /\ i = 0
    /\ rsp_intervals = Unbound
    /\ outcome = Pending
    /\ default_output = EmptyDict
    /\ probe \in Probes
    /\ first = NoFirst
    /\ intervened = FALSE

-----------------------------------------------------------------------------
(* rsp_intervalrelated, lines 8-102 *)

\* line 54: intervals = {}
NewIntervals == EmptyDict

\* a call ends: the exception propagates to the caller, or the table is returned
Finish(result) ==
    /\ outcome' = result
    /\ pc' = "done"

\* entry: the locals are created, line 54 runs, and lines 57 / 94 dispatch on
\* the type of data
Call(d) ==
    /\ pc = "idle"
    /\ data' = d
    /\ intervals' = NewIntervals
    /\ rate_cols' = <<>>
    /\ amp_cols' = <<>>
    /\ rrv' = NoRrv
    /\ rrvCalls' = 0
    /\ k' = 0
    /\ i' = 0
    /\ rsp_intervals' = Unbound
    /\ outcome' = Pending
    /\ pc' = CASE d.kind = "DataFrame" -> "rate"
               [] d.kind = "dict"      -> "loop"
               [] OTHER                -> "return"
    /\ UNCHANGED <<default_output, probe, first, intervened>>

\* a test that accepts several matching columns
AtLeastOne(cols) == Len(cols) >= 1

\* the test len(rate_cols) == 1 of line 59 and len(amp_cols) == 1 of line 83
ExactlyOne(cols) == Len(cols) = 1

\* amplitude validation placed before the collaborator call
SkipToAmplitude == "amp"

\* after line 60 the next statement is the collaborator call of line 61
AfterRateValidation == "rrv"

\* lines 58-60 and 77-81
RateColumns ==
    /\ pc = "rate"
    /\ rate_cols' = Matching(data.columns, "RSP_Rate")
    /\ IF ExactlyOne(rate_cols')
       THEN /\ intervals' = DictSet(intervals, "Rate_Mean",
                                    Mean(data.values[rate_cols'[1]]))
            /\ pc' = AfterRateValidation
            /\ UNCHANGED outcome
       ELSE /\ Finish(Raised(ValueErrorFor("RSP_Rate")))
            /\ UNCHANGED intervals
    /\ UNCHANGED <<data, amp_cols, rrv, rrvCalls, k, i, rsp_intervals,
                   default_output, probe, first, intervened>>

\* line 61: rrv = rsp_rrv(data, sampling_rate=sampling_rate)
InvokeRrv ==
    /\ pc = "rrv"
    /\ \E answer \in RrvResponses :
         /\ rrv' = answer
         /\ rrvCalls' = rrvCalls + 1
         /\ IF answer.raised
            THEN Finish(Raised(CollaboratorError))
            ELSE /\ pc' = "copy"
                 /\ UNCHANGED outcome
    /\ UNCHANGED <<data, intervals, rate_cols, amp_cols, k, i, rsp_intervals,
                   default_output, probe, first, intervened>>

\* a copy that skips a key the collaborator did not return
CopyMetricLenient ==
    /\ pc = "copy"
    /\ LET key == RRV_KEYS[k + 1]
       IN  intervals' = IF key \in DOMAIN rrv.val
                        THEN DictSet(intervals, key, rrv.val[key])
                        ELSE intervals
    /\ k' = k + 1
    /\ pc' = IF k + 1 = Len(RRV_KEYS) THEN "amp" ELSE "copy"
    /\ UNCHANGED <<data, rate_cols, amp_cols, rrv, rrvCalls, i, rsp_intervals,
                   outcome, default_output, probe, first, intervened>>

\* one of the assignments of lines 62-76:
\* intervals[key] = float(rrv[key]) for the next key
CopyMetric ==
    /\ pc = "copy"
    /\ LET key == RRV_KEYS[k + 1]
       IN  IF key \in DOMAIN rrv.val
           THEN /\ intervals' = DictSet(intervals, key, rrv.val[key])
                /\ k' = k + 1
                /\ pc' = IF k + 1 = Len(RRV_KEYS) THEN "amp" ELSE "copy"
                /\ UNCHANGED outcome
           ELSE /\ Finish(Raised(KeyErrorFor(key)))
                /\ UNCHANGED <<intervals, k>>
    /\ UNCHANGED <<data, rate_cols, amp_cols, rrv, rrvCalls, i, rsp_intervals,
                   default_output, probe, first, intervened>>

\* lines 82-89
AmplitudeColumns ==
    /\ pc = "amp"
    /\ amp_cols' = Matching(data.columns, "RSP_Amplitude")
    /\ IF ExactlyOne(amp_cols')
       THEN /\ intervals' = DictSet(intervals, "Amplitude_Mean",
                                    Mean(data.values[amp_cols'[1]]))
            /\ pc' = "frame"
            /\ UNCHANGED outcome
       ELSE /\ Finish(Raised(ValueErrorFor("RSP_Amplitude")))
            /\ UNCHANGED intervals
    /\ UNCHANGED <<data, rate_cols, rrv, rrvCalls, k, i, rsp_intervals,
                   default_output, probe, first, intervened>>

\* lines 91-92
FrameSingle ==
    /\ pc = "frame"
    /\ rsp_intervals' = AddPrefix(Transpose(FromDictIndex(intervals)), "RSP_")
    /\ pc' = "return"
    /\ UNCHANGED <<data, intervals, rate_cols, amp_cols, rrv, rrvCalls, k, i,
                   outcome, default_output, probe, first, intervened>>

\* line 96: the empty container intervals[index] = {}
NewContainer == EmptyDict

\* a call site that leaves `output` to the default argument
OutputOmitted == FALSE

\* lines 98-99: the call site passes intervals[index] as `output`, so the helper
\* does not fall back on its default argument
OutputPassed == TRUE

\* a loop that skips a failing recording and continues
LoopBodySkip ==
    /\ pc = "loop"
    /\ i < Len(data.keys)
    /\ LET index  == data.keys[i + 1]
           before == DictSet(intervals, index, EmptyDict)
           res    == _rsp_intervalrelated_formatinput(data.items[index],
                                                      before.val[index])
       IN  intervals' = DictSet(before, index, res.output)
    /\ i' = i + 1
    /\ UNCHANGED <<pc, outcome, data, rate_cols, amp_cols, rrv, rrvCalls, k,
                   rsp_intervals, default_output, probe, first, intervened>>

\* one iteration of the loop of lines 95-99
LoopBody ==
    /\ pc = "loop"
    /\ i < Len(data.keys)
    /\ LET index  == data.keys[i + 1]
           before == DictSet(intervals, index, NewContainer)
           output == IF OutputPassed THEN before.val[index] ELSE default_output
           res    == _rsp_intervalrelated_formatinput(data.items[index], output)
       IN  /\ default_output' = IF OutputPassed THEN default_output ELSE res.output
           /\ IF res.raised
              THEN /\ intervals' = before
                   /\ Finish(Raised(res.exc))
                   /\ UNCHANGED i
              ELSE /\ intervals' = DictSet(before, index, res.output)
                   /\ i' = i + 1
                   /\ UNCHANGED <<pc, outcome>>
    /\ UNCHANGED <<data, rate_cols, amp_cols, rrv, rrvCalls, k, rsp_intervals,
                   probe, first, intervened>>

\* line 100, once the loop is exhausted
FrameDict ==
    /\ pc = "loop"
    /\ i = Len(data.keys)
    /\ rsp_intervals' = FromDictIndex(intervals)
    /\ pc' = "return"
    /\ UNCHANGED <<data, intervals, rate_cols, amp_cols, rrv, rrvCalls, k, i,
                   outcome, default_output, probe, first, intervened>>

\* line 102: return rsp_intervals
Return ==
    /\ pc = "return"
    /\ IF rsp_intervals.bound
       THEN Finish(Returned(rsp_intervals))
       ELSE Finish(Raised(UnboundLocalError))
    /\ UNCHANGED <<data, intervals, rate_cols, amp_cols, rrv, rrvCalls, k, i,
                   rsp_intervals, default_output, probe, first, intervened>>

\* the caller has the result or the exception, and the frame of the call is
\* discarded with its locals.  The outcome of the first call on the probe is
\* remembered, and so is whether a call on another input ended after it.
Discard ==
    /\ pc = "done"
    /\ pc' = "idle"
    /\ data' = NoData
    /\ intervals' = EmptyDict
    /\ rate_cols' = <<>>
    /\ amp_cols' = <<>>
    /\ rrv' = NoRrv
    /\ rrvCalls' = 0
    /\ k' = 0
    /\ i' = 0
    /\ rsp_intervals' = Unbound
    /\ outcome' = Pending
    /\ first' = IF first = NoFirst /\ probe # NoProbe
                   /\ data = probe.data /\ rrv = probe.rrv
                THEN outcome ELSE first
    /\ intervened' = (intervened \/ (first # NoFirst /\ data # probe.data))
    /\ UNCHANGED <<default_output, probe>>

Next ==
    \/ /\ pc = "idle"
       /\ \E d \in (IF probe = NoProbe THEN Inputs ELSE TrackedInputs) : Call(d)
    \/ RateColumns
    \/ InvokeRrv
    \/ CopyMetric
    \/ AmplitudeColumns
    \/ FrameSingle
    \/ LoopBody
    \/ FrameDict
    \/ Return
    \/ Discard

Spec == Init /\ [][Next]_vars

SpecRepeat == InitRepeat /\ [][Next]_vars

-----------------------------------------------------------------------------
(* Vocabulary of the properties, stated on the inputs and not through the     *)
(* operators of the model                                                     *)

\* the column names of the inputs that contain `RSP_Rate`, and `RSP_Amplitude`
RateFamily == {"RSP_Rate", "RSP_Rate_Alt"}

AmplitudeFamily == {"RSP_Amplitude", "Raw_RSP_Amplitude"}

RateCount(rec) == Cardinality(Range(rec.columns) \cap RateFamily)

AmplitudeCount(rec) == Cardinality(Range(rec.columns) \cap AmplitudeFamily)

TheRateColumn(rec) == CHOOSE c \in Range(rec.columns) \cap RateFamily : TRUE

TheAmplitudeColumn(rec) == CHOOSE c \in Range(rec.columns) \cap AmplitudeFamily : TRUE

\* m is the arithmetic mean of values
IsMeanOf(m, values) == m.den > 0 /\ m.num * Len(values) = m.den * SumSeq(values)

\* the spec's MissingColumn(x) is the ValueError whose message names column x
MissingColumn(column) == Raised([type |-> "ValueError", about |-> column])

\* the collaborator was invoked once and returned all 15 required metrics
FullAnswer == rrvCalls = 1 /\ ~rrv.raised /\ Range(RRV_KEYS) \subseteq DOMAIN rrv.val

SingleDone == pc = "done" /\ data.kind = "DataFrame"

CollectionDone == pc = "done" /\ data.kind = "dict"

NoTable == outcome.kind = "raised" /\ ~rsp_intervals.bound

ExpectedColumns ==
    <<"RSP_Rate_Mean", "RSP_RRV_SDBB", "RSP_RRV_RMSSD", "RSP_RRV_SDSD",
      "RSP_RRV_VLF", "RSP_RRV_LF", "RSP_RRV_HF", "RSP_RRV_LFHF", "RSP_RRV_LFn",
      "RSP_RRV_HFn", "RSP_RRV_SD1", "RSP_RRV_SD2", "RSP_RRV_SD2SD1",
      "RSP_RRV_ApEn", "RSP_RRV_SampEn", "RSP_RRV_DFA", "RSP_Amplitude_Mean">>

\* a member of a collection that has the two exactly-named columns
HasExactColumns(rec) == {"RSP_Rate", "RSP_Amplitude"} \subseteq Range(rec.columns)

\* the row of a collection member: the means of its two exactly-named columns
IsRowOf(row, rec) ==
    /\ DOMAIN row = {"RSP_Rate_Mean", "RSP_Amplitude_Mean"}
    /\ IsMeanOf(row["RSP_Rate_Mean"], rec.values["RSP_Rate"])
    /\ IsMeanOf(row["RSP_Amplitude_Mean"], rec.values["RSP_Amplitude"])

-----------------------------------------------------------------------------
(* C1: a single recording with exactly one RSP_Rate-matching and exactly one  *)
(* RSP_Amplitude-matching column, and a collaborator that returns all 15      *)
(* metrics, yields a table of exactly one row whose columns are the 17        *)
(* expected names in order; RSP_Rate_Mean and RSP_Amplitude_Mean are the      *)
(* arithmetic means of the matched columns, whatever their exact names.       *)
C1_SingleRecordingRow ==
    (SingleDone /\ RateCount(data) = 1 /\ AmplitudeCount(data) = 1 /\ FullAnswer)
    => /\ outcome.kind = "returned"
       /\ outcome.table.index = <<"0">>
       /\ outcome.table.columns = ExpectedColumns
       /\ DOMAIN outcome.table.cell["0"] = Range(ExpectedColumns)
       /\ IsMeanOf(outcome.table.cell["0"]["RSP_Rate_Mean"],
                   data.values[TheRateColumn(data)])
       /\ IsMeanOf(outcome.table.cell["0"]["RSP_Amplitude_Mean"],
                   data.values[TheAmplitudeColumn(data)])

C1_Witness ==
    /\ SingleDone
    /\ data.columns = <<"RSP_Rate_Alt", "Raw_RSP_Amplitude">>
    /\ FullAnswer
    /\ outcome.kind = "returned"
    /\ Len(outcome.table.columns) = 17

-----------------------------------------------------------------------------
(* C2 as stated: on the single-recording path, for each of the two column     *)
(* families, whenever the number of matching columns is not exactly one the   *)
(* call fails with the MissingColumn error for that family.                   *)
C2_Original ==
    SingleDone
    => /\ RateCount(data) # 1 => outcome = MissingColumn("RSP_Rate")
       /\ AmplitudeCount(data) # 1 => outcome = MissingColumn("RSP_Amplitude")

(* C2 amended: a rate count other than one fails with MissingColumn(RSP_Rate); *)
(* a rate count of one, a collaborator that returned all 15 metrics and an     *)
(* amplitude count other than one fail with MissingColumn(RSP_Amplitude); and  *)
(* whenever either count is not one the call fails and no table is returned.   *)
C2_MissingColumnInOrder ==
    SingleDone
    => /\ RateCount(data) # 1 => outcome = MissingColumn("RSP_Rate")
       /\ (RateCount(data) = 1 /\ FullAnswer /\ AmplitudeCount(data) # 1)
          => outcome = MissingColumn("RSP_Amplitude")
       /\ (RateCount(data) # 1 \/ AmplitudeCount(data) # 1) => NoTable

C2_Witness ==
    /\ SingleDone
    /\ RateCount(data) = 1
    /\ AmplitudeCount(data) = 2
    /\ FullAnswer
    /\ outcome = MissingColumn("RSP_Amplitude")
    /\ ~rsp_intervals.bound

-----------------------------------------------------------------------------
(* C3: on the single-recording path the collaborator is invoked at most once  *)
(* per call and only after rate validation succeeded; amplitude validation    *)
(* runs only after the collaborator returned.  A recording without a rate     *)
(* column fails with MissingColumn and no invocation; a MissingColumn for the *)
(* amplitude is raised only after the collaborator was invoked and returned.  *)
C3_StepOrder ==
    /\ rrvCalls <= 1
    /\ rrvCalls = 1
       => /\ data.kind = "DataFrame"
          /\ RateCount(data) = 1
          /\ "Rate_Mean" \in Range(intervals.keys)
    /\ (\/ pc \in {"amp", "frame"}
        \/ amp_cols # <<>>
        \/ "Amplitude_Mean" \in Range(intervals.keys))
       => /\ rrvCalls = 1
          /\ ~rrv.raised
          /\ k = Len(RRV_KEYS)
    /\ SingleDone
       => /\ RateCount(data) = 0
             => outcome = MissingColumn("RSP_Rate") /\ rrvCalls = 0
          /\ outcome = MissingColumn("RSP_Rate") => rrvCalls = 0
          /\ outcome = MissingColumn("RSP_Amplitude")
             => /\ rrvCalls = 1
                /\ ~rrv.raised
                /\ RateCount(data) = 1
                /\ AmplitudeCount(data) # 1
          /\ (RateCount(data) = 1 /\ AmplitudeCount(data) # 1 /\ FullAnswer)
             => outcome = MissingColumn("RSP_Amplitude")

C3_Witness ==
    /\ SingleDone
    /\ RateCount(data) = 1
    /\ AmplitudeCount(data) = 0
    /\ rrvCalls = 1
    /\ outcome = MissingColumn("RSP_Amplitude")

-----------------------------------------------------------------------------
(* C4: a dict of N >= 0 recordings that all have columns named exactly        *)
(* RSP_Rate and RSP_Amplitude yields a table of exactly N rows labelled by    *)
(* the keys; each row has exactly the columns RSP_Rate_Mean and               *)
(* RSP_Amplitude_Mean, the means of that recording's own two columns; no RRV  *)
(* column appears and the collaborator is never invoked.                      *)
C4_CollectionRows ==
    (CollectionDone /\ \A key \in Range(data.keys) : HasExactColumns(data.items[key]))
    => /\ outcome.kind = "returned"
       /\ Len(outcome.table.index) = Len(data.keys)
       /\ Range(outcome.table.index) = Range(data.keys)
       /\ DOMAIN outcome.table.cell = Range(data.keys)
       /\ \A key \in Range(data.keys) :
            IsRowOf(outcome.table.cell[key], data.items[key])
       /\ Range(outcome.table.columns) \subseteq {"RSP_Rate_Mean", "RSP_Amplitude_Mean"}
       /\ Len(data.keys) > 0 => Len(outcome.table.columns) = 2
       /\ rrvCalls = 0
       /\ rrv = NoRrv

C4_Witness ==
    /\ CollectionDone
    /\ Len(data.keys) = 2
    /\ outcome.kind = "returned"
    /\ Len(outcome.table.index) = 2
    /\ outcome.table.cell["A"]["RSP_Rate_Mean"] # outcome.table.cell["B"]["RSP_Rate_Mean"]

-----------------------------------------------------------------------------
\* the position of the first member that lacks an exactly-named column
FirstFailing ==
    CHOOSE n \in 1..Len(data.keys) :
        /\ ~HasExactColumns(data.items[data.keys[n]])
        /\ \A m \in 1..(n - 1) : HasExactColumns(data.items[data.keys[m]])

(* C5: the collection path is fail-fast: recordings are processed one at a    *)
(* time in iteration order; when a recording fails, the call fails at that    *)
(* recording with its error, no later recording is processed and no table,    *)
(* not even of the rows already computed, is returned.                        *)
C5_FailFast ==
    data.kind = "dict"
    => /\ i <= Len(data.keys)
       /\ \A n \in 1..i : HasExactColumns(data.items[data.keys[n]])
       /\ pc = "loop" => intervals.keys = SubSeq(data.keys, 1, i)
       /\ outcome.kind = "raised"
          => /\ i < Len(data.keys)
             /\ ~HasExactColumns(data.items[data.keys[i + 1]])
       /\ (pc = "done" /\ \E key \in Range(data.keys) : ~HasExactColumns(data.items[key]))
          => /\ NoTable
             /\ outcome.exc.type \in {"ValueError", "KeyError"}
             /\ i + 1 = FirstFailing
             /\ intervals.keys = SubSeq(data.keys, 1, FirstFailing)
             /\ \A n \in 1..i : IsRowOf(intervals.val[data.keys[n]].val,
                                        data.items[data.keys[n]])

C5_Witness ==
    /\ CollectionDone
    /\ data.keys = <<"A", "B">>
    /\ ~HasExactColumns(data.items["A"])
    /\ HasExactColumns(data.items["B"])
    /\ outcome.kind = "raised"
    /\ "B" \notin Range(intervals.keys)

-----------------------------------------------------------------------------
(* C6: an input that is neither a DataFrame nor a dict makes the call fail    *)
(* with an InvalidInputShape error rather than silently proceeding, and the   *)
(* call returns no result.                                                    *)
(* The code has no check of the input's shape: the `if` of line 57 and the    *)
(* `elif` of line 94 have no `else`, so such an input proceeds past both      *)
(* branches to `return rsp_intervals` (line 102), which fails only because    *)
(* the local was never assigned.  That error reports the local variable, not  *)
(* the input, so the claim does not hold of the code.                         *)

\* an error that reports the shape of the input: raised on purpose about the
\* argument `data`
InvalidInputShape(exc) ==
    /\ exc.type \in {"TypeError", "ValueError"}
    /\ exc.about = "data"

OtherInputDone == pc = "done" /\ data.kind \notin {"DataFrame", "dict"}

C6_Original ==
    OtherInputDone
    => /\ outcome.kind = "raised"
       /\ InvalidInputShape(outcome.exc)
       /\ ~rsp_intervals.bound

\* what the code does with such an input: no statement of either branch runs,
\* and the return statement raises UnboundLocalError about rsp_intervals
C6_IncidentalFailure ==
    OtherInputDone
    => /\ outcome = Raised(UnboundLocalError)
       /\ ~InvalidInputShape(outcome.exc)
       /\ ~rsp_intervals.bound
       /\ intervals = EmptyDict
       /\ rrvCalls = 0

C6_Witness ==
    /\ pc = "done"
    /\ data.kind = "list"
    /\ outcome = Raised(UnboundLocalError)

-----------------------------------------------------------------------------
\* the position in RRV_KEYS of the first key the collaborator did not return
FirstMissing ==
    CHOOSE n \in 1..Len(RRV_KEYS) :
        /\ RRV_KEYS[n] \notin DOMAIN rrv.val
        /\ \A m \in 1..(n - 1) : RRV_KEYS[m] \in DOMAIN rrv.val

(* C7: on the single-recording path, when the collaborator fails or its       *)
(* answer omits one of the 15 required keys, the call fails (with the         *)
(* collaborator's error, or the lookup error of the first missing key) and    *)
(* no table is returned, although Rate_Mean and the metrics before the        *)
(* missing key were already accumulated.                                      *)
C7_NoPartialMerge ==
    (SingleDone /\ rrvCalls = 1 /\ ~FullAnswer)
    => /\ NoTable
       /\ "Amplitude_Mean" \notin Range(intervals.keys)
       /\ rrv.raised
          => /\ outcome = Raised(CollaboratorError)
             /\ intervals.keys = <<"Rate_Mean">>
       /\ ~rrv.raised
          => /\ outcome = Raised(KeyErrorFor(RRV_KEYS[FirstMissing]))
             /\ intervals.keys = <<"Rate_Mean">> \o SubSeq(RRV_KEYS, 1, FirstMissing - 1)

C7_Witness ==
    /\ SingleDone
    /\ rrvCalls = 1
    /\ ~rrv.raised
    /\ "RRV_LF" \notin DOMAIN rrv.val
    /\ Len(intervals.keys) = 5
    /\ outcome.kind = "raised"

-----------------------------------------------------------------------------
(* C8: no state leaks across calls: a call on the probe ends as the first     *)
(* call on the probe did, whatever calls came before; the shared default      *)
(* accumulator of the helper is never written; every call starts with an      *)
(* empty accumulator; a returned table holds only keys and values of its own  *)
(* input.                                                                     *)
C8_NoLeakAcrossCalls ==
    /\ default_output = EmptyDict
    /\ (pc = "rate" \/ (pc = "loop" /\ i = 0) \/ (pc = "return" /\ ~rsp_intervals.bound))
       => intervals = EmptyDict
    /\ (pc = "done" /\ first # NoFirst /\ data = probe.data /\ rrv = probe.rrv)
       => outcome = first
    /\ (CollectionDone /\ outcome.kind = "returned")
       => /\ DOMAIN outcome.table.cell = Range(data.keys)
          /\ \A key \in Range(data.keys) :
               IsRowOf(outcome.table.cell[key], data.items[key])
    /\ (SingleDone /\ outcome.kind = "returned")
       => /\ outcome.table.index = <<"0">>
          /\ Range(outcome.table.columns) \subseteq Range(ExpectedColumns)

C8_Witness ==
    /\ CollectionDone
    /\ first # NoFirst
    /\ intervened
    /\ data = probe.data
    /\ rrv = probe.rrv
    /\ outcome.kind = "returned"
    /\ outcome = first
    /\ Len(data.keys) = 1

-----------------------------------------------------------------------------
\* a recording with both exactly-named columns and further matching columns
Ambiguous(rec) ==
    /\ HasExactColumns(rec)
    /\ RateCount(rec) + AmplitudeCount(rec) > 2

\* the collection path accepts such a member and gives it its row
AmbiguousMemberRows ==
    data.kind = "dict"
    => /\ \A n \in 1..i :
            Ambiguous(data.items[data.keys[n]])
            => IsRowOf(intervals.val[data.keys[n]].val, data.items[data.keys[n]])
       /\ (pc = "done" /\ outcome.kind = "returned")
          => \A key \in Range(data.keys) :
                Ambiguous(data.items[key])
                => IsRowOf(outcome.table.cell[key], data.items[key])
       /\ (pc = "done" /\ outcome.kind = "raised")
          => ~Ambiguous(data.items[data.keys[i + 1]])

(* C9 as stated: a recording with the exactly-named RSP_Rate and              *)
(* RSP_Amplitude columns plus further matching columns is accepted as a       *)
(* member of a collection and gets the row of the two exactly-named columns,  *)
(* while alone on the single-recording path it fails with MissingColumn.      *)
C9_Original ==
    /\ AmbiguousMemberRows
    /\ (SingleDone /\ Ambiguous(data))
       => outcome \in {MissingColumn("RSP_Rate"), MissingColumn("RSP_Amplitude")}

(* C9 amended: such a recording is accepted as a member of a collection and   *)
(* gets the row of the two exactly-named columns, while alone on the          *)
(* single-recording path it always fails and returns no table: with           *)
(* MissingColumn(RSP_Rate) when it has a further rate column, and with        *)
(* MissingColumn(RSP_Amplitude) when it has one rate column and the           *)
(* collaborator returned all 15 metrics.                                      *)
C9_PathsValidateDifferently ==
    /\ AmbiguousMemberRows
    /\ (SingleDone /\ Ambiguous(data))
       => /\ NoTable
          /\ RateCount(data) > 1 => outcome = MissingColumn("RSP_Rate")
          /\ (RateCount(data) = 1 /\ FullAnswer)
             => outcome = MissingColumn("RSP_Amplitude")

C9_Witness ==
    /\ CollectionDone
    /\ data.keys = <<"A">>
    /\ data.items["A"].columns = <<"RSP_Rate", "RSP_Rate_Alt", "RSP_Amplitude">>
    /\ outcome.kind = "returned"
    /\ IsRowOf(outcome.table.cell["A"], data.items["A"])

-----------------------------------------------------------------------------
\* a recording that matches both families but lacks an exactly-named column
SubstringOnly(rec) ==
    /\ RateCount(rec) >= 1
    /\ AmplitudeCount(rec) >= 1
    /\ ~HasExactColumns(rec)

MissingExactName(rec) ==
    IF "RSP_Rate" \notin Range(rec.columns) THEN "RSP_Rate" ELSE "RSP_Amplitude"

\* the collection path never gives such a member a row: it aborts with KeyError
SubstringOnlyMemberAborts ==
    data.kind = "dict"
    => /\ \A n \in 1..i : ~SubstringOnly(data.items[data.keys[n]])
       /\ (/\ pc = "done"
           /\ i < Len(data.keys)
           /\ SubstringOnly(data.items[data.keys[i + 1]]))
          => /\ outcome =
                  Raised(KeyErrorFor(MissingExactName(data.items[data.keys[i + 1]])))
             /\ outcome.exc.type # "ValueError"
             /\ ~rsp_intervals.bound
       /\ (pc = "done" /\ outcome.kind = "returned")
          => \A key \in Range(data.keys) : ~SubstringOnly(data.items[key])

(* C10 as stated: a collection member that passes both presence checks only   *)
(* by substring, lacking the exactly-named RSP_Rate or RSP_Amplitude column,  *)
(* produces no row: the exact-name read fails with a lookup error that is not *)
(* the MissingColumn error and aborts the call; the same recording with one   *)
(* match per family succeeds on the single-recording path.                    *)
C10_Original ==
    /\ SubstringOnlyMemberAborts
    /\ (SingleDone /\ SubstringOnly(data)
          /\ RateCount(data) = 1 /\ AmplitudeCount(data) = 1)
       => outcome.kind = "returned"

(* C10 amended: the same, and the recording with one match per family         *)
(* succeeds on the single-recording path when the collaborator returned all   *)
(* 15 metrics.                                                                *)
C10_SubstringOnlyMember ==
    /\ SubstringOnlyMemberAborts
    /\ (SingleDone /\ SubstringOnly(data)
          /\ RateCount(data) = 1 /\ AmplitudeCount(data) = 1 /\ FullAnswer)
       => /\ outcome.kind = "returned"
          /\ outcome.table.columns = ExpectedColumns

C10_Witness ==
    /\ CollectionDone
    /\ data.keys = <<"A", "B">>
    /\ HasExactColumns(data.items["A"])
    /\ data.items["B"].columns = <<"RSP_Rate", "Raw_RSP_Amplitude">>
    /\ outcome = Raised(KeyErrorFor("RSP_Amplitude"))

====
